---------------------------- MODULE Spec2Model ----------------------------
(***************************************************************************)
(* Model of the quiz bot's core (monaxovdulov/og):                         *)
(*   - app/guard.py  CallbackShield: dedup window and per-user in-flight   *)
(*                   lock;                                                 *)
(*   - app/repo.py   Repo: question bank, series selection, per-user       *)
(*                   session store with whole-document persistence,        *)
(*                   start-up loading and _atomic_write step by step;      *)
(*   - app/commands.py, app/callbacks.py, app/handlers.py: the dispatcher. *)
(*                                                                         *)
(* Python values are encoded as follows.  An optional record (session,     *)
(* await_input) is a sequence of length 0 (None) or 1.  An optional        *)
(* string is the string itself or NoneStr.  An optional timestamp is the   *)
(* number or NoTime.  A dict is a function whose DOMAIN is its key set.    *)
(* Time is counted in ticks of 0.4 s, the coarsest unit in which both      *)
(* dedup_ttl (0.8 s) and in_flight_timeout (2.0 s) are whole numbers.      *)
(***************************************************************************)
EXTENDS Integers, Sequences, FiniteSets, TLC

VARIABLES
    now,        \* time.monotonic(), in ticks
    last,       \* CallbackShield._last: key -> time last seen
    inflight,   \* CallbackShield._inflight: user_id -> acquisition time
    held,       \* handler -> <<>> or <<[user, at]>>: its own acquisition, until it releases
    seen,       \* history: key -> time of the most recent is_duplicate call
    burst,      \* history: key -> time of the most recent is_duplicate call that returned False
    acq,        \* history: user -> time of the latest successful try_acquire with no release since
    bank,       \* Repo.topics and Repo.questions as load_bank left them
    users,      \* Repo.users: user id -> UserRow (the in-memory document)
    disk,       \* the users mapping of the users.json file
    afterFinish, \* history: <<>> or <<[user, terminal, step]>>, the calls made since a finish ended a session
    fstate,     \* what the users.json path holds: "missing", "garbage", "nousers", "partial" or "doc"
    tmp,        \* the users.json.tmp file: <<>> (absent) or <<[doc, done]>>
    pc,         \* where the process is: start-up, serving, inside _atomic_write, dead
    txn,        \* history: <<>> or <<[old_state, old_doc, new_doc]>> of the latest persist begun
    PREFS,      \* handlers.PREFS: user id -> prefs
    LAST_TOPIC_BY_USER, \* handlers.LAST_TOPIC_BY_USER: user id -> topic id
    HAS_RESUME, \* handlers.HAS_RESUME: user id -> bool
    threads,    \* concurrent callers: thread -> its position and local variables
    lock,       \* CallbackShield._lock: "free" or the thread that holds it
    ret         \* the last call and the value it returned

guardVars == <<now, last, inflight, held, seen, burst, acq>>
storeVars == <<bank, users, disk, afterFinish>>
fileVars == <<fstate, tmp, pc, txn>>
uiVars == <<PREFS, LAST_TOPIC_BY_USER, HAS_RESUME>>
threadVars == <<threads, lock>>
vars == <<now, last, inflight, held, seen, burst, acq, bank, users, disk, afterFinish,
          fstate, tmp, pc, txn, PREFS, LAST_TOPIC_BY_USER, HAS_RESUME, threads, lock, ret>>

---------------------------------------------------------------------------
(* Bounds and input sets *)

MaxTime == 7

Users == {1, 2}
Handlers == {"h1", "h2", "h3"}
\* CallbackShield._key: (user id, chat id, message id, data)
Keys == {<<1, 10, 100, "q:next">>, <<1, 10, 100, "q:finish">>}

NoTime == -1
NoneStr == "None"

\* core.py constructs the shield with dedup_ttl=0.8 and in_flight_timeout=2.0
dedup_ttl == 2
in_flight_timeout == 5

\* The value a call returned: ok for a bool, qs for a list of question ids,
\* err for the exception it raised ("" when it returned normally).
Ret(op, ok, qs, err) == [op |-> op, ok |-> ok, qs |-> qs, err |-> err]

\* dict.get(k) on a dict of timestamps
GetTime(d, k) == IF k \in DOMAIN d THEN d[k] ELSE NoTime

\* d[k] = v
Put(d, k, v) == [x \in DOMAIN d \cup {k} |-> IF x = k THEN v ELSE d[x]]

\* d.pop(k, None)
Pop(d, k) == [x \in DOMAIN d \ {k} |-> d[x]]

---------------------------------------------------------------------------
(* app/guard.py: CallbackShield *)

\* is_duplicate's return expression: ts is not None and (now - ts) < dedup_ttl
IsDupResult(ts, t) == ts # NoTime /\ (t - ts) < dedup_ttl

\* is_duplicate's write: self._last[k] = now, whatever the result
LastKeepsFirst(d, k, t) == IF IsDupResult(GetTime(d, k), t) THEN d ELSE Put(d, k, t)
LastAfter(d, k, t) == Put(d, k, t)

is_duplicate(k) ==
    LET ts == GetTime(last, k)
        r  == IsDupResult(ts, now)
    IN  /\ last' = LastAfter(last, k, now)
        /\ ret' = Ret("is_duplicate", r, <<>>, "")
        /\ seen' = Put(seen, k, now)
        /\ burst' = IF r THEN burst ELSE Put(burst, k, now)
        /\ UNCHANGED <<now, inflight, held, acq, storeVars, fileVars, uiVars, threadVars>>

\* try_acquire's test: an unexpired lock exists
Locked(ts, t) == ts # NoTime /\ (t - ts) < in_flight_timeout

\* try_acquire's write on refusal (none) and on success (self._inflight[user_id] = now)
InflightRefreshed(d, u, t) == Put(d, u, t)
InflightAfter(d, u, t) == IF Locked(GetTime(d, u), t) THEN d ELSE Put(d, u, t)

\* A handler that holds nothing calls try_acquire(user_id); on True it proceeds
\* and holds its acquisition until it calls release.
try_acquire(h, u) ==
    LET ok == ~Locked(GetTime(inflight, u), now)
    IN  /\ held[h] = <<>>
        /\ inflight' = InflightAfter(inflight, u, now)
        /\ ret' = Ret("try_acquire", ok, <<>>, "")
        /\ held' = IF ok THEN [held EXCEPT ![h] = <<[user |-> u, at |-> now]>>] ELSE held
        /\ acq' = IF ok THEN Put(acq, u, now) ELSE acq
        /\ UNCHANGED <<now, last, seen, burst, storeVars, fileVars, uiVars, threadVars>>

\* release: self._inflight.pop(user_id, None)
InflightReleased(d, u) == Pop(d, u)

\* A handler that acquired calls release(user_id) when it exits, however late.
release(h) ==
    /\ held[h] # <<>>
    /\ LET u == held[h][1].user
       IN  /\ inflight' = InflightReleased(inflight, u)
           /\ acq' = Pop(acq, u)
    /\ held' = [held EXCEPT ![h] = <<>>]
    /\ ret' = Ret("release", FALSE, <<>>, "")
    /\ UNCHANGED <<now, last, seen, burst, storeVars, fileVars, uiVars, threadVars>>

\* time.monotonic() moves on between calls
Tick ==
    /\ now < MaxTime
    /\ now' = now + 1
    /\ UNCHANGED <<last, inflight, held, seen, burst, acq, ret, storeVars, fileVars, uiVars, threadVars>>

\* CallbackShield() and Repo() as constructed, before anything is loaded
GuardInit ==
    /\ bank = [topics |-> <<>>, questions |-> <<>>]
    /\ users = << >>
    /\ disk = << >>
    /\ afterFinish = <<>>
    /\ fstate = "missing"
    /\ tmp = <<>>
    /\ pc = "init"
    /\ txn = <<>>
    /\ PREFS = << >>
    /\ LAST_TOPIC_BY_USER = << >>
    /\ HAS_RESUME = << >>
    /\ threads = << >>
    /\ lock = "free"
    /\ now = 0
    /\ last = << >>
    /\ inflight = << >>
    /\ held = [h \in Handlers |-> <<>>]
    /\ seen = << >>
    /\ burst = << >>
    /\ acq = << >>
    /\ ret = Ret("none", FALSE, <<>>, "")

\* The dedup map and the in-flight map are separate dicts that no operation
\* reads together, so each is explored under its own specification.
DedupNext ==
    \/ Tick
    \/ \E k \in Keys : is_duplicate(k)

InFlightNext ==
    \/ Tick
    \/ \E h \in Handlers, u \in Users : try_acquire(h, u)
    \/ \E h \in Handlers : release(h)

SpecDedup == GuardInit /\ [][DedupNext]_vars

SpecInFlight == GuardInit /\ [][InFlightNext]_vars

---------------------------------------------------------------------------
(* app/repo.py: the question bank *)

MaxIndex == 3       \* advance is explored up to this cursor value
MaxAnswered == 2    \* record_answer is explored up to this many counted answers

\* Every store operation reads and writes the row of its own user_id only;
\* the store is explored for one user.
StoreUsers == {1}

Formats == {"numeric", "text"}

\* a call that returns nothing
NoValue == Ret("none", FALSE, <<>>, "")

Q(id, topic_ids, difficulty) == [id |-> id, topic_ids |-> topic_ids, difficulty |-> difficulty]

\* Two question banks that load_bank accepts.  LooseBank has a question that
\* names its topic twice and a question with an empty topic_ids list: both
\* pass load_bank's only check, that every named topic exists.
CleanBank ==
    [topics |-> <<"alg", "db">>,
     questions |-> <<Q("q1", <<"alg">>, "m"), Q("q2", <<"db", "alg">>, "m"), Q("q3", <<"db">>, "m")>>]
LooseBank ==
    [topics |-> <<"alg", "db">>,
     questions |-> <<Q("q1", <<"alg", "alg">>, "m"), Q("q4", <<>>, "m")>>]

Range(s) == {s[i] : i \in 1..Len(s)}
Ids(qs) == [i \in 1..Len(qs) |-> qs[i].id]

\* load_bank's check: the ids of the questions that name an unknown topic
Bad(b) ==
    LET known(q) == \A i \in 1..Len(q.topic_ids) : q.topic_ids[i] \in Range(b.topics)
        isBad(q) == ~known(q)
    IN  Ids(SelectSeq(b.questions, isBad))

Banks == {b \in {CleanBank, LooseBank} : Bad(b) = <<>>}

\* Python truthiness of an optional string: None and "" are false
Truthy(x) == x # NoneStr /\ x # ""

\* self.q_by_id = {q["id"]: q for q in qlist}: the last question with the id
HasQ(b, id) == \E i \in 1..Len(b.questions) : b.questions[i].id = id
q_by_id(b, id) ==
    LET i == CHOOSE i \in 1..Len(b.questions) :
                 /\ b.questions[i].id = id
                 /\ \A j \in (i + 1)..Len(b.questions) : b.questions[j].id # id
    IN  b.questions[i]

\* self.q_by_topic[t]: one entry per occurrence of t in a question's topic_ids,
\* in the order of the questions
RECURSIVE q_by_topic(_, _)
q_by_topic(qs, t) ==
    IF qs = <<>> THEN <<>>
    ELSE LET q == Head(qs)
             isT(x) == x = t
             n == Len(SelectSeq(q.topic_ids, isT))
         IN  [i \in 1..n |-> q] \o q_by_topic(Tail(qs), t)

\* pick_series' pool
Pool(b, topic_id, diff) ==
    LET hasDiff(q) == q.difficulty = diff
    IN  IF Truthy(topic_id)
        THEN SelectSeq(q_by_topic(b.questions, topic_id), hasDiff)
        ELSE SelectSeq(b.questions, hasDiff)

\* random.sample(pool, n): the elements at n distinct positions, in any order
Samples(pool, n) ==
    LET picks == {p \in [1..n -> 1..Len(pool)] : \A i, j \in 1..n : i # j => p[i] # p[j]}
    IN  {[i \in 1..n |-> pool[p[i]]] : p \in picks}

\* pick_series: every list it can return
pick_series(b, topic_id, diff, count) ==
    LET pool == Pool(b, topic_id, diff)
    IN  IF Len(pool) < count THEN {<<>>} ELSE Samples(pool, count)

---------------------------------------------------------------------------
(* app/repo.py: the users store *)

DEFAULT_PREFS == [qcount |-> 5, diff |-> "m", sol |-> "imm"]

\* the row ensure_user creates (username and the created_at / updated_at
\* stamps are written and never read by the store; they are left out)
NewRow ==
    [prefs |-> DEFAULT_PREFS,
     session |-> <<>>,
     last_topic_id |-> NoneStr,
     stats |-> [total |-> [answered |-> 0, correct |-> 0], by_topic |-> << >>]]

\* ensure_user's effect on self.users
EnsureUserResets(us, u) == Put(us, u, NewRow)
EnsureUser(us, u) == IF u \in DOMAIN us THEN us ELSE Put(us, u, NewRow)

\* the file after ensure_user alone: save_users runs only when the row is created
DiskAfterEnsure(u) == IF u \in DOMAIN users THEN disk ELSE EnsureUser(users, u)

\* the session start_session installs
FreshSessionKeepsAnswers(old, mode, topic_id, qids) ==
    [mode |-> mode, topic_id |-> topic_id, question_ids |-> qids, index |-> 0,
     answers |-> IF old = <<>> THEN << >> ELSE old[1].answers,
     await_input |-> <<>>, solutions_qids |-> <<>>]
FreshSession(old, mode, topic_id, qids) ==
    [mode |-> mode, topic_id |-> topic_id, question_ids |-> qids, index |-> 0,
     answers |-> << >>, await_input |-> <<>>, solutions_qids |-> <<>>]

HasSession(us, u) == u \in DOMAIN us /\ us[u].session # <<>>

\* history of the calls that follow a finish which ended a session:
\* finish -> "finished", then get_current_question -> "asked", then
\* start_session -> "restarted"; any other call ends the history
Finished(us, u) ==
    IF HasSession(us, u)
    THEN <<[user |-> u,
            terminal |-> us[u].session[1].index >= Len(us[u].session[1].question_ids),
            step |-> "finished"]>>
    ELSE <<>>
Follows(u, steps) == afterFinish # <<>> /\ afterFinish[1].user = u /\ afterFinish[1].step \in steps
Asked(u) ==
    IF Follows(u, {"finished", "asked"}) THEN <<[afterFinish[1] EXCEPT !.step = "asked"]>> ELSE <<>>
Restarted(u) ==
    IF Follows(u, {"asked"}) THEN <<[afterFinish[1] EXCEPT !.step = "restarted"]>> ELSE <<>>

ensure_user(u) ==
    /\ users' = EnsureUser(users, u)
    /\ disk' = DiskAfterEnsure(u)
    /\ ret' = NoValue
    /\ afterFinish' = <<>>
    /\ UNCHANGED <<bank, guardVars, fileVars, uiVars, threadVars>>

\* what start_session does once pick_series returned series
StartClearsOnEmpty(us, u, mode, topic_id, series) ==
    [us EXCEPT ![u].session =
        IF series = <<>> THEN <<>> ELSE <<FreshSession(us[u].session, mode, topic_id, Ids(series))>>,
               ![u].last_topic_id = topic_id]
StartWith(us, u, mode, topic_id, series) ==
    IF series = <<>> THEN us
    ELSE [us EXCEPT ![u].session = <<FreshSession(us[u].session, mode, topic_id, Ids(series))>>,
                    ![u].last_topic_id = topic_id]

start_session(u, mode, topic_id, diff, count) ==
    /\ \E series \in pick_series(bank, topic_id, diff, count) :
          /\ users' = StartWith(EnsureUser(users, u), u, mode, topic_id, series)
          /\ disk' = IF series = <<>> THEN DiskAfterEnsure(u) ELSE users'
          /\ ret' = Ret("start_session", FALSE, Ids(series), "")
    /\ afterFinish' = Restarted(u)
    /\ UNCHANGED <<bank, guardVars, fileVars, uiVars, threadVars>>

\* get_current_question's result: the ids of the question returned (none: <<>>)
CurrentQuestionFirst(b, row) ==
    IF row.session = <<>> THEN <<>>
    ELSE LET s == row.session[1]
         IN  IF 0 <= s.index /\ s.index < Len(s.question_ids) /\ HasQ(b, s.question_ids[1])
             THEN <<q_by_id(b, s.question_ids[1]).id>>
             ELSE <<>>
CurrentQuestion(b, row) ==
    IF row.session = <<>> THEN <<>>
    ELSE LET s == row.session[1]
         IN  IF 0 <= s.index /\ s.index < Len(s.question_ids) /\ HasQ(b, s.question_ids[s.index + 1])
             THEN <<q_by_id(b, s.question_ids[s.index + 1]).id>>
             ELSE <<>>

get_current_question(u) ==
    /\ users' = EnsureUser(users, u)
    /\ disk' = DiskAfterEnsure(u)
    /\ ret' = Ret("get_current_question", FALSE, CurrentQuestion(bank, users'[u]), "")
    /\ afterFinish' = Asked(u)
    /\ UNCHANGED <<bank, guardVars, fileVars, uiVars, threadVars>>

\* record_answer's topic attribution: topic_hint, else the first entry of the
\* question's topic_ids ([None] when the question or the key is missing);
\* indexing an empty topic_ids list raises IndexError
AttributionRaises(b, qid, topic_hint) ==
    topic_hint = NoneStr /\ HasQ(b, qid) /\ q_by_id(b, qid).topic_ids = <<>>
AttributedTopic(b, qid, topic_hint) ==
    IF topic_hint # NoneStr THEN topic_hint
    ELSE IF HasQ(b, qid) THEN q_by_id(b, qid).topic_ids[1]
    ELSE NoneStr

CountWrongOnly(bucket, rec) ==
    [answered |-> bucket.answered + (IF rec.is_correct THEN 0 ELSE 1),
     correct |-> bucket.correct + (IF rec.is_correct THEN 1 ELSE 0)]
Count(bucket, rec) ==
    [answered |-> bucket.answered + 1,
     correct |-> bucket.correct + (IF rec.is_correct THEN 1 ELSE 0)]

\* record_answer's update of u["stats"]
StatsAfterSkipsTotal(stats, rec, t) ==
    [total |-> stats.total,
     by_topic |-> IF Truthy(t)
                  THEN Put(stats.by_topic, t,
                           Count(IF t \in DOMAIN stats.by_topic THEN stats.by_topic[t]
                                 ELSE [answered |-> 0, correct |-> 0], rec))
                  ELSE stats.by_topic]
StatsAfter(stats, rec, t) ==
    [total |-> Count(stats.total, rec),
     by_topic |-> IF Truthy(t)
                  THEN Put(stats.by_topic, t,
                           Count(IF t \in DOMAIN stats.by_topic THEN stats.by_topic[t]
                                 ELSE [answered |-> 0, correct |-> 0], rec))
                  ELSE stats.by_topic]

RECURSIVE SumAnswered(_, _)
SumAnswered(us, S) ==
    IF S = {} THEN 0
    ELSE LET u == CHOOSE x \in S : TRUE
         IN  us[u].stats.total.answered + SumAnswered(us, S \ {u})

record_answer(u, qid, rec, topic_hint) ==
    /\ LET us1 == EnsureUser(users, u)
           stored == [us1 EXCEPT ![u].session[1].answers = Put(@, qid, rec)]
       IN  IF ~HasSession(us1, u)
           THEN /\ users' = us1
                /\ disk' = DiskAfterEnsure(u)
                /\ ret' = NoValue
           ELSE IF AttributionRaises(bank, qid, topic_hint)
           THEN /\ users' = stored
                /\ disk' = disk
                /\ ret' = Ret("record_answer", FALSE, <<>>, "IndexError")
           ELSE /\ SumAnswered(users, DOMAIN users) < MaxAnswered
                /\ users' = [stored EXCEPT ![u].stats =
                                StatsAfter(@, rec, AttributedTopic(bank, qid, topic_hint))]
                /\ disk' = users'
                /\ ret' = NoValue
    /\ afterFinish' = <<>>
    /\ UNCHANGED <<bank, guardVars, fileVars, uiVars, threadVars>>

\* advance: s["index"] += 1, and what it returns
Advanced(s) == [s EXCEPT !.index = s.index + 1]
MoreInclusive(s) == s.index <= Len(s.question_ids)
More(s) == s.index < Len(s.question_ids)

advanceReportsMore(u) ==
    /\ LET us1 == EnsureUser(users, u)
       IN  IF ~HasSession(us1, u)
           THEN /\ users' = us1
                /\ disk' = DiskAfterEnsure(u)
                /\ ret' = Ret("advance", TRUE, <<>>, "")
           ELSE /\ us1[u].session[1].index < MaxIndex
                /\ users' = [us1 EXCEPT ![u].session[1] = Advanced(@)]
                /\ disk' = users'
                /\ ret' = Ret("advance", More(users'[u].session[1]), <<>>, "")
    /\ afterFinish' = <<>>
    /\ UNCHANGED <<bank, guardVars, fileVars, uiVars, threadVars>>
advance(u) ==
    /\ LET us1 == EnsureUser(users, u)
       IN  IF ~HasSession(us1, u)
           THEN /\ users' = us1
                /\ disk' = DiskAfterEnsure(u)
                /\ ret' = Ret("advance", FALSE, <<>>, "")
           ELSE /\ us1[u].session[1].index < MaxIndex
                /\ users' = [us1 EXCEPT ![u].session[1] = Advanced(@)]
                /\ disk' = users'
                /\ ret' = Ret("advance", More(users'[u].session[1]), <<>>, "")
    /\ afterFinish' = <<>>
    /\ UNCHANGED <<bank, guardVars, fileVars, uiVars, threadVars>>

finishKeepsSession(u) ==
    /\ users' = EnsureUser(users, u)
    /\ disk' = users'
    /\ ret' = NoValue
    /\ afterFinish' = Finished(users, u)
    /\ UNCHANGED <<bank, guardVars, fileVars, uiVars, threadVars>>
finish(u) ==
    /\ users' = [EnsureUser(users, u) EXCEPT ![u].session = <<>>]
    /\ disk' = users'
    /\ ret' = NoValue
    /\ afterFinish' = Finished(users, u)
    /\ UNCHANGED <<bank, guardVars, fileVars, uiVars, threadVars>>

\* set_await_input (a = <<[qid, format]>>) and clear_await_input (a = <<>>)
AwaitSet(us, u, a) ==
    IF ~HasSession(us, u) THEN us ELSE [us EXCEPT ![u].session[1].await_input = a]

set_await_input(u, qid, fmt) ==
    /\ users' = AwaitSet(EnsureUser(users, u), u, <<[qid |-> qid, format |-> fmt]>>)
    /\ disk' = IF HasSession(users, u) THEN users' ELSE DiskAfterEnsure(u)
    /\ ret' = NoValue
    /\ afterFinish' = <<>>
    /\ UNCHANGED <<bank, guardVars, fileVars, uiVars, threadVars>>

clear_await_input(u) ==
    /\ users' = AwaitSet(EnsureUser(users, u), u, <<>>)
    /\ disk' = IF HasSession(users, u) THEN users' ELSE DiskAfterEnsure(u)
    /\ ret' = NoValue
    /\ afterFinish' = <<>>
    /\ UNCHANGED <<bank, guardVars, fileVars, uiVars, threadVars>>

\* The calls the dispatcher makes, drawn from small sets.
\* start_session: a full series, a topic series, a single question, and two
\* requests no pool of either bank can satisfy.
StartArgs ==
    {[mode |-> "series", topic_id |-> NoneStr, diff |-> "m", count |-> 3],
     [mode |-> "daily",  topic_id |-> "alg",   diff |-> "m", count |-> 2],
     [mode |-> "single", topic_id |-> NoneStr, diff |-> "m", count |-> 1],
     [mode |-> "series", topic_id |-> "db",    diff |-> "m", count |-> 3],
     [mode |-> "series", topic_id |-> NoneStr, diff |-> "e", count |-> 1]}
Rec(c) == [format |-> "text", value |-> "x", is_correct |-> c]
\* record_answer: with and without topic_hint, right and wrong, and questions
\* that only one of the banks holds ("q2", "q4")
AnswerArgs ==
    {[qid |-> "q1", rec |-> Rec(TRUE),  topic_hint |-> NoneStr],
     [qid |-> "q2", rec |-> Rec(FALSE), topic_hint |-> NoneStr],
     [qid |-> "q1", rec |-> Rec(FALSE), topic_hint |-> "db"],
     [qid |-> "q4", rec |-> Rec(TRUE),  topic_hint |-> NoneStr]}
AwaitQids == {"q1"}

\* core.py: load_bank() and load_users() (no users file yet) ran at start-up
Init ==
    /\ bank \in Banks
    /\ users = << >>
    /\ disk = << >>
    /\ afterFinish = <<>>
    /\ fstate = "doc"
    /\ tmp = <<>>
    /\ pc = "ready"
    /\ txn = <<>>
    /\ PREFS = << >>
    /\ LAST_TOPIC_BY_USER = << >>
    /\ HAS_RESUME = << >>
    /\ threads = << >>
    /\ lock = "free"
    /\ now = 0
    /\ last = << >>
    /\ inflight = << >>
    /\ held = [h \in Handlers |-> <<>>]
    /\ seen = << >>
    /\ burst = << >>
    /\ acq = << >>
    /\ ret = Ret("none", FALSE, <<>>, "")

Next ==
    \/ \E u \in StoreUsers : ensure_user(u)
    \/ \E u \in StoreUsers, a \in StartArgs :
          start_session(u, a.mode, a.topic_id, a.diff, a.count)
    \/ \E u \in StoreUsers : get_current_question(u)
    \/ \E u \in StoreUsers, a \in AnswerArgs :
          record_answer(u, a.qid, a.rec, a.topic_hint)
    \/ \E u \in StoreUsers : advance(u)
    \/ \E u \in StoreUsers : finish(u)
    \/ \E u \in StoreUsers, qid \in AwaitQids, fmt \in Formats : set_await_input(u, qid, fmt)
    \/ \E u \in StoreUsers : clear_await_input(u)

Spec == Init /\ [][Next]_vars

---------------------------------------------------------------------------
(* app/repo.py: rows of several users, and their prefs *)

\* u["prefs"].update(changes)
PrefsUpdated(prefs, changes) ==
    [k \in DOMAIN prefs \cup DOMAIN changes |->
        IF k \in DOMAIN changes THEN changes[k] ELSE prefs[k]]

update_prefs(u, changes) ==
    /\ users' = [EnsureUser(users, u) EXCEPT ![u].prefs = PrefsUpdated(@, changes)]
    /\ disk' = users'
    /\ ret' = Ret("update_prefs", FALSE, <<>>, "")
    /\ afterFinish' = <<>>
    /\ UNCHANGED <<bank, guardVars, fileVars, uiVars, threadVars>>

\* update_prefs(**changes): a value of the settings menu, a value outside
\* it, and a key that is no preference
PrefArgs ==
    {[qcount |-> 10],
     [qcount |-> 7],
     [diff |-> "h", theme |-> "dark"]}

\* No store operation reads prefs, and every operation touches the row of its
\* own user_id only; prefs and the rows of two users are explored with one
\* kind of series and the answers that need no topic_hint.
RowAnswerArgs == {a \in AnswerArgs : a.topic_hint = NoneStr /\ a.rec.is_correct}

RowsNext ==
    \/ \E u \in Users : ensure_user(u)
    \/ \E u \in Users, c \in PrefArgs : update_prefs(u, c)
    \/ \E u \in Users : start_session(u, "single", NoneStr, "m", 1)
    \/ \E u \in Users, a \in RowAnswerArgs : record_answer(u, a.qid, a.rec, a.topic_hint)

SpecRows == Init /\ [][RowsNext]_vars

---------------------------------------------------------------------------
(* app/core.py and app/repo.py: start-up, the users file, _atomic_write *)

\* The process, step by step: Repo() is constructed ("init"), load_bank
\* ("bank"), load_users ("ready"); save_users enters _atomic_write ("open"),
\* which opens the temporary file ("dump"), writes and closes it
\* ("replace") and renames it over users.json (back to "ready").  The
\* process can die at any of these points ("crashed") and be started again;
\* an error raised by load_bank ends start-up ("aborted").  A crash of the
\* process loses the memory and keeps the files.

\* a questions.json that names topics which topics.json does not have
BrokenBank ==
    [topics |-> <<"alg", "db">>,
     questions |-> <<Q("q1", <<"alg">>, "m"), Q("q5", <<"zzz">>, "m"), Q("q6", <<"alg", "yyy">>, "e")>>]
BankFiles == {CleanBank, LooseBank, BrokenBank}

EmptyBank == [topics |-> <<>>, questions |-> <<>>]

\* load_bank fills topics, questions and the indexes from the files, then
\* validates and raises with the list of the bad question ids
load_bank(f) ==
    /\ pc = "init"
    /\ bank' = f
    /\ IF Bad(f) = <<>>
       THEN /\ pc' = "bank"
            /\ ret' = Ret("load_bank", TRUE, <<>>, "")
       ELSE /\ pc' = "aborted"
            /\ ret' = Ret("load_bank", FALSE, Bad(f), "RuntimeError")
    /\ UNCHANGED <<users, disk, afterFinish, fstate, tmp, txn, guardVars, uiVars, threadVars>>

\* save_users -> _atomic_write(path, users_doc): the persist that begins
Begin(doc) == <<[old_state |-> fstate, old_doc |-> disk, new_doc |-> doc]>>

\* load_users: what it installs, and whether it saves before it returns
LoadedUsers(state, doc) == IF state = "doc" THEN doc ELSE << >>
AfterLoadNoSave(state) == "ready"
AfterLoad(state) == IF state = "missing" THEN "open" ELSE "ready"

load_users ==
    /\ pc = "bank"
    /\ users' = LoadedUsers(fstate, disk)
    /\ pc' = AfterLoad(fstate)
    /\ txn' = IF pc' = "open" THEN Begin(users') ELSE txn
    /\ ret' = Ret("load_users", TRUE, <<>>, "")
    /\ UNCHANGED <<bank, disk, afterFinish, fstate, tmp, guardVars, uiVars, threadVars>>

\* ensure_user for a user_id that has no row, up to its call of save_users
create_user(u) ==
    /\ pc = "ready"
    /\ u \notin DOMAIN users
    /\ users' = EnsureUser(users, u)
    /\ pc' = "open"
    /\ txn' = Begin(users')
    /\ ret' = NoValue
    /\ UNCHANGED <<bank, disk, afterFinish, fstate, tmp, guardVars, uiVars, threadVars>>

\* open(tmp, "w"): the temporary file exists and is empty
Opened == <<[doc |-> << >>, done |-> FALSE]>>
\* json.dump and the end of the with block: the document is written and closed
Dumped(doc) == <<[doc |-> doc, done |-> TRUE]>>

open_canonical ==
    /\ pc = "open"
    /\ fstate' = "partial"
    /\ disk' = << >>
    /\ tmp' = Opened
    /\ pc' = "dump"
    /\ UNCHANGED <<bank, users, afterFinish, txn, ret, guardVars, uiVars, threadVars>>
atomic_write_open ==
    /\ pc = "open"
    /\ tmp' = Opened
    /\ pc' = "dump"
    /\ UNCHANGED <<bank, users, disk, afterFinish, fstate, txn, ret, guardVars, uiVars, threadVars>>

atomic_write_dump ==
    /\ pc = "dump"
    /\ tmp' = Dumped(users)
    /\ pc' = "replace"
    /\ UNCHANGED <<bank, users, disk, afterFinish, fstate, txn, ret, guardVars, uiVars, threadVars>>

\* os.replace(tmp, path): the path now names what the temporary file held
atomic_write_replace ==
    /\ pc = "replace"
    /\ fstate' = IF tmp[1].done THEN "doc" ELSE "partial"
    /\ disk' = tmp[1].doc
    /\ tmp' = <<>>
    /\ pc' = "ready"
    /\ UNCHANGED <<bank, users, afterFinish, txn, ret, guardVars, uiVars, threadVars>>

Crash ==
    /\ pc \notin {"crashed", "aborted"}
    /\ pc' = "crashed"
    /\ bank' = EmptyBank
    /\ users' = << >>
    /\ ret' = Ret("none", FALSE, <<>>, "")
    /\ UNCHANGED <<disk, afterFinish, fstate, tmp, txn, guardVars, uiVars, threadVars>>

\* python -m app again: core.py constructs Repo()
Restart ==
    /\ pc = "crashed"
    /\ pc' = "init"
    /\ UNCHANGED <<bank, users, disk, afterFinish, fstate, tmp, txn, ret, guardVars, uiVars, threadVars>>

\* users.json before the first start: absent, not JSON, JSON without "users",
\* or a document (empty, or with one row)
FilesInit ==
    /\ bank = EmptyBank
    /\ users = << >>
    /\ afterFinish = <<>>
    /\ tmp = <<>>
    /\ pc = "init"
    /\ txn = <<>>
    /\ PREFS = << >>
    /\ LAST_TOPIC_BY_USER = << >>
    /\ HAS_RESUME = << >>
    /\ threads = << >>
    /\ lock = "free"
    /\ now = 0
    /\ last = << >>
    /\ inflight = << >>
    /\ held = [h \in Handlers |-> <<>>]
    /\ seen = << >>
    /\ burst = << >>
    /\ acq = << >>
    /\ ret = Ret("none", FALSE, <<>>, "")
    /\ \E s \in {"missing", "garbage", "nousers", "doc"}, d \in {<< >>, Put(<< >>, 1, NewRow)} :
          /\ s # "doc" => d = << >>
          /\ fstate = s
          /\ disk = d

FilesNext ==
    \/ \E f \in BankFiles : load_bank(f)
    \/ load_users
    \/ \E u \in Users : create_user(u)
    \/ atomic_write_open
    \/ atomic_write_dump
    \/ atomic_write_replace
    \/ Crash
    \/ Restart

SpecFiles == FilesInit /\ [][FilesNext]_vars

---------------------------------------------------------------------------
(* app/commands.py, app/callbacks.py, app/handlers.py: the dispatcher *)

\* callback_data is modelled already split at ":" (data.split(":")); the
\* empty sequence is a missing or empty callback_data
NS_NOOP == "noop"
CB(ns, action, args) == [ns |-> ns, action |-> action, args |-> args]

parse_cb(parts) ==
    IF parts = <<>> THEN CB(NS_NOOP, NS_NOOP, <<>>)
    ELSE LET nonEmpty(x) == x # ""
         IN  CB(IF parts[1] # "" THEN parts[1] ELSE NS_NOOP,
                IF Len(parts) > 1 /\ parts[2] # "" THEN parts[2] ELSE NS_NOOP,
                IF Len(parts) > 2 THEN SelectSeq(SubSeq(parts, 3, Len(parts)), nonEmpty) ELSE <<>>)

\* int(value) for the argument strings that occur
IntOf == [x \in {"0", "4", "7"} |-> CASE x = "0" -> 0 [] x = "4" -> 4 [] x = "7" -> 7]

parse_positive_int(args, default, minimum) ==
    IF args = <<>> \/ args[1] \notin DOMAIN IntOf THEN default
    ELSE IF IntOf[args[1]] >= minimum THEN IntOf[args[1]] ELSE minimum

pick_or_default(args, allowed, default) ==
    IF args # <<>> /\ args[1] \in allowed THEN args[1] ELSE default

\* _get_prefs: PREFS.setdefault(user_id, {...})
GetPrefs(prefs, u) ==
    IF u \in DOMAIN prefs THEN prefs ELSE Put(prefs, u, [qcount |-> 5, diff |-> "m", sol |-> "imm"])

\* s_router: the value it stores for "qcount", "diff" and "sol"
Clamped(q) == IF q <= 3 THEN 3 ELSE IF q <= 5 THEN 5 ELSE 10
s_router(prefs, u, action, args) ==
    IF action = "qcount"
    THEN [GetPrefs(prefs, u) EXCEPT ![u].qcount = Clamped(parse_positive_int(args, 5, 1))]
    ELSE IF action = "diff"
    THEN [GetPrefs(prefs, u) EXCEPT ![u].diff = pick_or_default(args, {"e", "m", "h"}, "m")]
    ELSE IF action = "sol"
    THEN [GetPrefs(prefs, u) EXCEPT ![u].sol = pick_or_default(args, {"imm", "end"}, "imm")]
    ELSE prefs

\* on_callback: parse, route, run the handler; neither the shield nor the
\* repo is called on any path
on_callback(u, parts) ==
    LET route == parse_cb(parts)
    IN  /\ PREFS' = IF route.ns = "s" THEN s_router(PREFS, u, route.action, route.args)
                    ELSE IF route.ns = "m" /\ route.action = "settings" THEN GetPrefs(PREFS, u)
                    ELSE PREFS
        /\ HAS_RESUME' = IF route.ns = "p" /\ route.action \in {"rnd", "series", "daily", "topic"}
                         THEN Put(HAS_RESUME, u, TRUE)
                         ELSE IF route.ns = "q" /\ route.action = "finish"
                         THEN Put(HAS_RESUME, u, FALSE)
                         ELSE HAS_RESUME
        /\ LAST_TOPIC_BY_USER' = IF route.ns = "p" /\ route.action = "topic"
                                 THEN Put(LAST_TOPIC_BY_USER, u,
                                          IF route.args # <<>> THEN route.args[1] ELSE "")
                                 ELSE LAST_TOPIC_BY_USER
        /\ ret' = Ret("on_callback", FALSE, <<>>, "")
        /\ UNCHANGED <<storeVars, guardVars, fileVars, threadVars>>

\* cmd_start: repo.ensure_user, then the main menu
cmd_start(u) ==
    /\ users' = EnsureUser(users, u)
    /\ disk' = DiskAfterEnsure(u)
    /\ afterFinish' = <<>>
    /\ ret' = Ret("cmd_start", FALSE, <<>>, "")
    /\ UNCHANGED <<bank, guardVars, fileVars, uiVars, threadVars>>

CallbackData ==
    {<<"s", "qcount", "7">>, <<"s", "diff", "h">>, <<"s", "sol", "zz">>, <<"m", "settings">>,
     <<"p", "topic", "alg">>, <<"p", "series">>, <<"q", "finish">>, <<"zz", "", "x">>, <<>>}

DispatchNext ==
    \/ \E u \in Users : cmd_start(u)
    \/ \E u \in Users, d \in CallbackData : on_callback(u, d)

SpecDispatch == Init /\ [][DispatchNext]_vars

---------------------------------------------------------------------------
(* app/guard.py: CallbackShield called from two threads *)

\* Each caller makes one call.  It reads time.monotonic() before it takes
\* self._lock; inside the lock it reads the dict and then writes it and
\* returns.  Other threads and the clock move between these steps.
Callers == {"c1", "c2"}
ShieldOps == {"try_acquire", "is_duplicate"}
TheUser == 1
TheKey == <<1, 10, 100, "q:next">>

Idle == [pc |-> "idle", op |-> "none", t |-> NoTime, ts |-> NoTime, res |-> FALSE, end |-> NoTime]

\* with self._lock: only one thread at a time is inside
LockNotTaken(c) == TRUE
CanLock(c) == lock = "free"

\* k = self._key(call); now = time.monotonic()
call_enter(c, op) ==
    /\ threads[c].pc = "idle"
    /\ threads' = [threads EXCEPT ![c] = [Idle EXCEPT !.pc = "timed", !.op = op, !.t = now]]
    /\ UNCHANGED <<now, last, inflight, held, seen, burst, acq, lock, ret, storeVars, fileVars, uiVars>>

\* with self._lock: ts = self._last.get(k) / ts = self._inflight.get(user_id)
call_locked(c) ==
    /\ threads[c].pc = "timed"
    /\ CanLock(c)
    /\ lock' = c
    /\ threads' = [threads EXCEPT ![c].pc = "locked",
                                  ![c].ts = IF threads[c].op = "try_acquire"
                                            THEN GetTime(inflight, TheUser)
                                            ELSE GetTime(last, TheKey)]
    /\ UNCHANGED <<now, last, inflight, held, seen, burst, acq, ret, storeVars, fileVars, uiVars>>

\* the write, the return value and the end of the with block
call_return(c) ==
    LET me == threads[c]
        r  == IF me.op = "try_acquire" THEN ~Locked(me.ts, me.t) ELSE IsDupResult(me.ts, me.t)
    IN  /\ me.pc = "locked"
        /\ inflight' = IF me.op = "try_acquire" /\ r THEN Put(inflight, TheUser, me.t) ELSE inflight
        /\ last' = IF me.op = "is_duplicate" THEN LastAfter(last, TheKey, me.t) ELSE last
        /\ lock' = IF lock = c THEN "free" ELSE lock
        /\ threads' = [threads EXCEPT ![c].pc = "done", ![c].res = r, ![c].end = now]
        /\ ret' = Ret(me.op, r, <<>>, "")
        /\ UNCHANGED <<now, held, seen, burst, acq, storeVars, fileVars, uiVars>>

\* the clock moves while callers are between their steps
Clock ==
    /\ now < MaxTime
    /\ now' = now + 1
    /\ UNCHANGED <<last, inflight, held, seen, burst, acq, ret, storeVars, fileVars, uiVars, threadVars>>

ShieldInit ==
    /\ bank = [topics |-> <<>>, questions |-> <<>>]
    /\ users = << >>
    /\ disk = << >>
    /\ afterFinish = <<>>
    /\ fstate = "missing"
    /\ tmp = <<>>
    /\ pc = "init"
    /\ txn = <<>>
    /\ PREFS = << >>
    /\ LAST_TOPIC_BY_USER = << >>
    /\ HAS_RESUME = << >>
    /\ threads = [c \in Callers |-> Idle]
    /\ lock = "free"
    /\ now = 0
    /\ last = << >>
    /\ inflight = << >>
    /\ held = [h \in Handlers |-> <<>>]
    /\ seen = << >>
    /\ burst = << >>
    /\ acq = << >>
    /\ ret = Ret("none", FALSE, <<>>, "")

ShieldNext ==
    \/ Clock
    \/ \E c \in Callers, op \in ShieldOps : call_enter(c, op)
    \/ \E c \in Callers : call_locked(c)
    \/ \E c \in Callers : call_return(c)

SpecShield == ShieldInit /\ [][ShieldNext]_vars

---------------------------------------------------------------------------
(* app/repo.py: two handlers of one user inside the store *)

\* A handler is admitted by try_acquire and never releases while it runs; a
\* second handler of the same user is admitted once in_flight_timeout has
\* passed.  Repo takes no lock: x["k"] += 1 is a load of x["k"], an add and a
\* store, and another thread can run between the load and the store.
Workers == {"h1", "h2"}
RaceUser == 1
Advance == [op |-> "advance", qid |-> "", rec |-> Rec(FALSE), topic_hint |-> NoneStr]
RaceCalls ==
    {[op |-> "record_answer", qid |-> "q1", rec |-> Rec(TRUE),  topic_hint |-> NoneStr],
     [op |-> "record_answer", qid |-> "q3", rec |-> Rec(FALSE), topic_hint |-> NoneStr],
     Advance}
IdleWorker == [pc |-> "idle", call |-> Advance, ctr |-> "none", reg |-> 0, ran |-> FALSE]

\* the counters a call increments, in the order of the code
TopicOf(call) == AttributedTopic(bank, call.qid, call.topic_hint)
Counters(call) ==
    IF call.op = "advance" THEN <<"index">>
    ELSE <<"total.answered">>
         \o (IF call.rec.is_correct THEN <<"total.correct">> ELSE <<>>)
         \o (IF Truthy(TopicOf(call)) THEN <<"by.answered">> ELSE <<>>)
         \o (IF Truthy(TopicOf(call)) /\ call.rec.is_correct THEN <<"by.correct">> ELSE <<>>)
CtrAfter(call, ctr) ==
    LET cs == Counters(call)
        i  == CHOOSE j \in 1..Len(cs) : cs[j] = ctr
    IN  IF i = Len(cs) THEN "none" ELSE cs[i + 1]

\* by = u["stats"]["by_topic"].setdefault(t, {"answered": 0, "correct": 0})
WithBucket(row, t) ==
    IF t \in DOMAIN row.stats.by_topic THEN row
    ELSE [row EXCEPT !.stats.by_topic = Put(@, t, [answered |-> 0, correct |-> 0])]

\* the load and the store of one counter
Load(row, t, ctr) ==
    CASE ctr = "index"          -> row.session[1].index
      [] ctr = "total.answered" -> row.stats.total.answered
      [] ctr = "total.correct"  -> row.stats.total.correct
      [] ctr = "by.answered"    -> WithBucket(row, t).stats.by_topic[t].answered
      [] ctr = "by.correct"     -> row.stats.by_topic[t].correct
Store(row, t, ctr, v) ==
    CASE ctr = "index"          -> [row EXCEPT !.session[1].index = v]
      [] ctr = "total.answered" -> [row EXCEPT !.stats.total.answered = v]
      [] ctr = "total.correct"  -> [row EXCEPT !.stats.total.correct = v]
      [] ctr = "by.answered"    -> [row EXCEPT !.stats.by_topic[t].answered = v]
      [] ctr = "by.correct"     -> [row EXCEPT !.stats.by_topic[t].correct = v]

\* the shield admits the handler: try_acquire(user_id) returned True
admit(w, call) ==
    /\ threads[w].pc = "idle"
    /\ ~Locked(GetTime(inflight, RaceUser), now)
    /\ inflight' = InflightAfter(inflight, RaceUser, now)
    /\ held' = [held EXCEPT ![w] = <<[user |-> RaceUser, at |-> now]>>]
    /\ acq' = Put(acq, RaceUser, now)
    /\ threads' = [threads EXCEPT ![w] = [IdleWorker EXCEPT !.pc = "admitted", !.call = call]]
    /\ ret' = Ret("try_acquire", TRUE, <<>>, "")
    /\ UNCHANGED <<now, last, seen, burst, lock, storeVars, fileVars, uiVars>>

\* u = self.ensure_user(user_id); s = u.get("session"); if not s: return;
\* record_answer then stores s["answers"][qid] = rec and resolves the topic
enter(w) ==
    LET me  == threads[w]
        us1 == EnsureUser(users, RaceUser)
    IN  /\ me.pc = "admitted"
        /\ IF ~HasSession(us1, RaceUser)
           THEN /\ users' = us1
                /\ disk' = DiskAfterEnsure(RaceUser)
                /\ threads' = [threads EXCEPT ![w].pc = "done"]
           ELSE /\ users' = IF me.call.op = "record_answer"
                            THEN [us1 EXCEPT ![RaceUser].session[1].answers = Put(@, me.call.qid, me.call.rec)]
                            ELSE us1
                /\ disk' = disk
                /\ threads' = [threads EXCEPT ![w].pc = "load", ![w].ran = TRUE,
                                              ![w].ctr = Counters(me.call)[1]]
        /\ UNCHANGED <<bank, afterFinish, ret, lock, guardVars, fileVars, uiVars>>

\* x[k] += 1, first half: evaluate x[k]
load(w) ==
    LET me == threads[w]
        t  == TopicOf(me.call)
    IN  /\ me.pc = "load"
        /\ users' = IF me.ctr = "by.answered"
                     THEN [users EXCEPT ![RaceUser] = WithBucket(@, t)]
                     ELSE users
        /\ threads' = [threads EXCEPT ![w].pc = "store", ![w].reg = Load(users[RaceUser], t, me.ctr)]
        /\ UNCHANGED <<bank, disk, afterFinish, ret, lock, guardVars, fileVars, uiVars>>

\* x[k] += 1, second half: x[k] = <the value loaded> + 1
store(w) ==
    LET me == threads[w]
        t  == TopicOf(me.call)
        nx == CtrAfter(me.call, me.ctr)
    IN  /\ me.pc = "store"
        /\ users' = [users EXCEPT ![RaceUser] = Store(@, t, me.ctr, me.reg + 1)]
        /\ threads' = [threads EXCEPT ![w].pc = IF nx = "none" THEN "save" ELSE "load",
                                      ![w].ctr = nx]
        /\ UNCHANGED <<bank, disk, afterFinish, ret, lock, guardVars, fileVars, uiVars>>

\* self.save_users() and the return
save(w) ==
    LET me == threads[w]
    IN  /\ me.pc = "save"
        /\ disk' = users
        /\ threads' = [threads EXCEPT ![w].pc = "done"]
        /\ ret' = IF me.call.op = "advance"
                  THEN Ret("advance", More(users[RaceUser].session[1]), <<>>, "")
                  ELSE NoValue
        /\ UNCHANGED <<bank, users, afterFinish, lock, guardVars, fileVars, uiVars>>

\* the session the two handlers work on was started before either of them
begin_session(a) ==
    /\ users = << >>
    /\ start_session(RaceUser, a.mode, a.topic_id, a.diff, a.count)

RaceStartArgs == {[mode |-> "series", topic_id |-> NoneStr, diff |-> "m", count |-> 3]}

RaceInit ==
    /\ bank = CleanBank
    /\ users = << >>
    /\ disk = << >>
    /\ afterFinish = <<>>
    /\ fstate = "doc"
    /\ tmp = <<>>
    /\ pc = "ready"
    /\ txn = <<>>
    /\ PREFS = << >>
    /\ LAST_TOPIC_BY_USER = << >>
    /\ HAS_RESUME = << >>
    /\ threads = [w \in Workers |-> IdleWorker]
    /\ lock = "free"
    /\ now = 0
    /\ last = << >>
    /\ inflight = << >>
    /\ held = [h \in Handlers |-> <<>>]
    /\ seen = << >>
    /\ burst = << >>
    /\ acq = << >>
    /\ ret = Ret("none", FALSE, <<>>, "")

RaceNext ==
    \/ Clock
    \/ \E a \in RaceStartArgs : begin_session(a)
    \/ \E w \in Workers, call \in RaceCalls : admit(w, call)
    \/ \E w \in Workers : enter(w)
    \/ \E w \in Workers : load(w)
    \/ \E w \in Workers : store(w)
    \/ \E w \in Workers : save(w)

SpecRace == RaceInit /\ [][RaceNext]_vars

---------------------------------------------------------------------------
(* app/repo.py: handlers of two users persisting at the same time *)

\* Each writer serves a user that has no row yet: cmd_start calls ensure_user
\* (the row is created and saved); the settings handler calls update_prefs
\* (ensure_user creates and saves the row, then the prefs change is saved).
\* Every _atomic_write uses the one temporary path users.json.tmp.  A writer's
\* open file stays on the file it opened, whatever the paths name later:
\* fd is "tmp" (the file the temporary path names), "canon" (the file the
\* canonical path names), "orphan" (a file no path names) or "none".
Writers == {"w1", "w2"}
WriterUser(w) == IF w = "w1" THEN 1 ELSE 2
WriterCalls == {"ensure_user", "update_prefs"}
WriterChange == [qcount |-> 7]
IdleWriter == [pc |-> "idle", call |-> "none", fd |-> "none", err |-> "", saves |-> 0]

\* json.dump into a file another writer has written since it was truncated:
\* the bytes of the two documents overlay each other
Garbled == <<[doc |-> << >>, done |-> FALSE, mixed |-> TRUE]>>
Overlaid(doc) == {Dumped(doc), Garbled}
Written(c, doc) == IF c = Opened THEN {Dumped(doc)} ELSE Overlaid(doc)
Canonical == <<[doc |-> disk, done |-> fstate = "doc"]>>

\* ensure_user: self.users[key] = u, then save_users
writer_create(w, call) ==
    /\ threads[w].pc = "idle"
    /\ users' = EnsureUser(users, WriterUser(w))
    /\ threads' = [threads EXCEPT ![w].pc = "open", ![w].call = call]
    /\ UNCHANGED <<bank, disk, afterFinish, ret, lock, guardVars, fileVars, uiVars>>

\* update_prefs after its ensure_user returned: u["prefs"].update(changes),
\* then save_users
writer_update(w) ==
    /\ threads[w].pc = "update"
    /\ users' = [users EXCEPT ![WriterUser(w)].prefs = PrefsUpdated(@, WriterChange)]
    /\ threads' = [threads EXCEPT ![w].pc = "open"]
    /\ UNCHANGED <<bank, disk, afterFinish, ret, lock, guardVars, fileVars, uiVars>>

\* open(tmp, "w"): creates the temporary file, or truncates the one that is there
writer_open(w) ==
    /\ threads[w].pc = "open"
    /\ tmp' = Opened
    /\ threads' = [threads EXCEPT ![w].pc = "dump", ![w].fd = "tmp"]
    /\ UNCHANGED <<storeVars, fstate, pc, txn, ret, lock, guardVars, uiVars>>

\* json.dump(data, f) and the end of the with block, on the file f is open on
writer_dump(w) ==
    LET me == threads[w]
    IN  /\ me.pc = "dump"
        /\ threads' = [threads EXCEPT ![w].pc = "replace", ![w].fd = "none"]
        /\ CASE me.fd = "tmp" ->
                  /\ tmp' \in Written(tmp, users)
                  /\ UNCHANGED <<fstate, disk>>
             [] me.fd = "canon" ->
                  /\ \E c \in Written(Canonical, users) :
                        /\ disk' = c[1].doc
                        /\ fstate' = IF c[1].done THEN "doc" ELSE "partial"
                  /\ UNCHANGED tmp
             [] OTHER -> UNCHANGED <<fstate, disk, tmp>>
        /\ UNCHANGED <<bank, users, afterFinish, pc, txn, ret, lock, guardVars, uiVars>>

\* os.replace(tmp, path): raises FileNotFoundError when the temporary path
\* names nothing; otherwise the canonical path names the temporary file
Renamed(fd) == IF fd = "tmp" THEN "canon" ELSE IF fd = "canon" THEN "orphan" ELSE fd
AfterSave(me) == IF me.call = "update_prefs" /\ me.saves = 0 THEN "update" ELSE "done"
writer_replace(w) ==
    /\ threads[w].pc = "replace"
    /\ IF tmp = <<>>
       THEN /\ threads' = [threads EXCEPT ![w].pc = "failed", ![w].err = "FileNotFoundError"]
            /\ ret' = Ret("ensure_user", FALSE, <<>>, "FileNotFoundError")
            /\ UNCHANGED <<fstate, disk, tmp>>
       ELSE /\ fstate' = IF tmp[1].done THEN "doc" ELSE "partial"
            /\ disk' = tmp[1].doc
            /\ tmp' = <<>>
            /\ threads' = [x \in Writers |->
                              IF x = w THEN [threads[x] EXCEPT !.pc = AfterSave(threads[x]), !.saves = @ + 1]
                              ELSE [threads[x] EXCEPT !.fd = Renamed(@)]]
            /\ ret' = NoValue
    /\ UNCHANGED <<bank, users, afterFinish, pc, txn, lock, guardVars, uiVars>>

\* after start-up: an empty users document on disk, no temporary file
WritersInit ==
    /\ bank = CleanBank
    /\ users = << >>
    /\ disk = << >>
    /\ afterFinish = <<>>
    /\ fstate = "doc"
    /\ tmp = <<>>
    /\ pc = "ready"
    /\ txn = <<>>
    /\ PREFS = << >>
    /\ LAST_TOPIC_BY_USER = << >>
    /\ HAS_RESUME = << >>
    /\ threads = [w \in Writers |-> IdleWriter]
    /\ lock = "free"
    /\ now = 0
    /\ last = << >>
    /\ inflight = << >>
    /\ held = [h \in Handlers |-> <<>>]
    /\ seen = << >>
    /\ burst = << >>
    /\ acq = << >>
    /\ ret = Ret("none", FALSE, <<>>, "")

WritersNext ==
    \/ \E w \in Writers, call \in WriterCalls : writer_create(w, call)
    \/ \E w \in Writers : writer_update(w)
    \/ \E w \in Writers : writer_open(w)
    \/ \E w \in Writers : writer_dump(w)
    \/ \E w \in Writers : writer_replace(w)

SpecWriters == WritersInit /\ [][WritersNext]_vars

---------------------------------------------------------------------------
(* Claims about CallbackShield *)

\* handler g holds an acquisition for user u
Holds(g, u) == held[g] # <<>> /\ held[g][1].user = u

\* C1: for a given user, no try_acquire returns True while another handler's
\* acquisition for that user is neither released by that handler nor older
\* than in_flight_timeout: two handlers that both hold an acquisition for the
\* same user acquired at least in_flight_timeout apart.
C1_OneHandlerPerUser ==
    \A g, h \in Handlers, u \in Users :
        (g # h /\ Holds(g, u) /\ Holds(h, u) /\ held[g][1].at <= held[h][1].at)
            => held[h][1].at - held[g][1].at >= in_flight_timeout

\* C2: is_duplicate(key) always refreshes the last-seen time of key to now and
\* returns True iff the key was seen before and less than dedup_ttl ago,
\* counted from the previous call (the window slides), not from the first.
C2_IsDuplicateSlides ==
    [][\A k \in Keys :
          is_duplicate(k) =>
              /\ last'[k] = now
              /\ ret'.ok <=> (k \in DOMAIN seen /\ now - seen[k] < dedup_ttl)]_vars

\* C2 witness: a repeat is suppressed although the first occurrence of its
\* run lies more than dedup_ttl back.
C2_SuppressedBeyondFirstWindow ==
    /\ ret.op = "is_duplicate"
    /\ ret.ok
    /\ \E k \in DOMAIN seen :
          /\ seen[k] = now
          /\ k \in DOMAIN burst
          /\ now - burst[k] > dedup_ttl

\* C3: try_acquire(u) returns True iff no acquisition for u is outstanding
\* (none yet, or release(u) was called since) or the outstanding one is at
\* least in_flight_timeout old; so it is refused before release and timeout,
\* granted after release, and granted after the timeout without any release.
C3_TryAcquireCases ==
    [][\A h \in Handlers, u \in Users :
          try_acquire(h, u) =>
              (ret'.ok <=> (u \notin DOMAIN acq \/ now - acq[u] >= in_flight_timeout))]_vars

\* C3 witness: a handler acquired after the timeout while the earlier holder
\* never released.
C3_AcquiredAfterTimeout ==
    /\ ret.op = "try_acquire"
    /\ ret.ok
    /\ \E g, h \in Handlers, u \in Users :
          /\ g # h /\ Holds(g, u) /\ Holds(h, u)
          /\ held[h][1].at = now
          /\ now - held[g][1].at >= in_flight_timeout

---------------------------------------------------------------------------
(* Claims about Repo *)

Session(u) == users[u].session[1]
NoDup(seq) == \A i, j \in 1..Len(seq) : i # j => seq[i] # seq[j]
Bucket(stats, t) ==
    IF t \in DOMAIN stats.by_topic THEN stats.by_topic[t] ELSE [answered |-> 0, correct |-> 0]

\* C4: for every user with a session, after any sequence of store operations,
\* 0 <= session.index <= len(session.question_ids).
C4_IndexInRange ==
    \A u \in DOMAIN users :
        users[u].session # <<>> =>
            /\ 0 <= Session(u).index
            /\ Session(u).index <= Len(Session(u).question_ids)

\* C5: after every store operation correct <= answered holds for the total
\* and for every topic bucket, and no operation decreases an answered or
\* correct counter or removes a topic bucket.
CorrectWithinAnswered(stats) ==
    /\ stats.total.correct <= stats.total.answered
    /\ \A t \in DOMAIN stats.by_topic : stats.by_topic[t].correct <= stats.by_topic[t].answered
NotDecreased(old, new) ==
    /\ old.total.answered <= new.total.answered
    /\ old.total.correct <= new.total.correct
    /\ \A t \in DOMAIN old.by_topic :
          /\ t \in DOMAIN new.by_topic
          /\ old.by_topic[t].answered <= new.by_topic[t].answered
          /\ old.by_topic[t].correct <= new.by_topic[t].correct
C5_StatsMonotone ==
    [][/\ \A u \in DOMAIN users' : CorrectWithinAnswered(users'[u].stats)
       /\ \A u \in DOMAIN users :
             /\ u \in DOMAIN users'
             /\ NotDecreased(users[u].stats, users'[u].stats)]_vars

\* C5 witness: finish has ended a session in which a right and a wrong answer
\* were counted, and the counters and the bucket are still there.
C5_StatsKeptAfterFinish ==
    \E u \in DOMAIN users :
        /\ users[u].session = <<>>
        /\ users[u].stats.total.answered = 2
        /\ users[u].stats.total.correct = 1
        /\ DOMAIN users[u].stats.by_topic # {}

\* C6: when the pool is smaller than count, start_session returns an empty
\* list and leaves the user's prior session (question_ids, index, answers,
\* await_input) exactly as it was.
C6_FailedStartKeepsSession ==
    [][\A u \in StoreUsers, a \in StartArgs :
          (/\ Len(Pool(bank, a.topic_id, a.diff)) < a.count
           /\ ret'.op = "start_session"
           /\ start_session(u, a.mode, a.topic_id, a.diff, a.count))
          => /\ ret'.qs = <<>>
             /\ u \in DOMAIN users =>
                   /\ users'[u].session = users[u].session
                   /\ users'[u].last_topic_id = users[u].last_topic_id]_vars

\* C6 witness: a start_session that returned nothing while a session with an
\* answer, a pending input and a moved cursor was in place.
C6_FailedStartOverLiveSession ==
    /\ ret.op = "start_session"
    /\ ret.qs = <<>>
    /\ \E u \in DOMAIN users :
          /\ users[u].session # <<>>
          /\ Session(u).index > 0
          /\ DOMAIN Session(u).answers # {}
          /\ Session(u).await_input # <<>>

\* C7: when the selector returns a non-empty series, start_session installs a
\* fresh session with the given mode and topic_id, the ids of the returned
\* questions in the returned order, index 0, no answers and no await_input,
\* sets last_topic_id, persists, and returns the selected questions.
C7_StartInstallsFreshSession ==
    [][\A u \in StoreUsers, a \in StartArgs :
          (/\ Len(Pool(bank, a.topic_id, a.diff)) >= a.count
           /\ ret'.op = "start_session"
           /\ start_session(u, a.mode, a.topic_id, a.diff, a.count))
          => /\ ret'.qs # <<>>
             /\ \E series \in Samples(Pool(bank, a.topic_id, a.diff), a.count) :
                   ret'.qs = Ids(series)
             /\ users'[u].session # <<>>
             /\ users'[u].session[1].mode = a.mode
             /\ users'[u].session[1].topic_id = a.topic_id
             /\ users'[u].session[1].question_ids = ret'.qs
             /\ users'[u].session[1].index = 0
             /\ DOMAIN users'[u].session[1].answers = {}
             /\ users'[u].session[1].await_input = <<>>
             /\ users'[u].last_topic_id = a.topic_id
             /\ disk' = users']_vars

\* C7 witness: a session started over an earlier one that had counted answers.
C7_RestartedAfterAnswers ==
    /\ ret.op = "start_session"
    /\ ret.qs # <<>>
    /\ \E u \in DOMAIN users :
          /\ users[u].stats.total.answered >= 1
          /\ users[u].session # <<>>
          /\ Session(u).question_ids = ret.qs
          /\ Session(u).mode = "daily"
          /\ users[u].last_topic_id = "alg"

\* C8: for every loaded bank and every (topic_id, difficulty, count), what
\* pick_series returns has length count or 0 (0 exactly when the pool is
\* smaller than count), holds questions of the pool only, and holds no
\* question id twice.
C8_PickSeriesDistinct ==
    [][\A u \in StoreUsers, a \in StartArgs :
          (ret'.op = "start_session" /\ start_session(u, a.mode, a.topic_id, a.diff, a.count))
          => LET pool == Pool(bank, a.topic_id, a.diff)
             IN  /\ Len(ret'.qs) \in {a.count, 0}
                 /\ Len(ret'.qs) = 0 <=> Len(pool) < a.count
                 /\ Range(ret'.qs) \subseteq Range(Ids(pool))
                 /\ NoDup(ret'.qs)]_vars

\* C9: advance with an active session adds exactly 1 to session.index,
\* persists, and returns True iff the new index < len(question_ids); on a
\* 3-question series from index 0 three calls return True, True, False.
C9_AdvanceSteps ==
    [][\A u \in StoreUsers :
          (advance(u) /\ HasSession(users, u))
          => LET old == users[u].session[1]
                 new == users'[u].session[1]
                 n == Len(old.question_ids)
             IN  /\ new = [old EXCEPT !.index = old.index + 1]
                 /\ ret'.op = "advance"
                 /\ ret'.ok <=> new.index < n
                 /\ disk' = users'
                 /\ (n = 3 /\ old.index \in {0, 1}) => ret'.ok
                 /\ (n = 3 /\ old.index = 2) => ~ret'.ok]_vars

\* C9 witness: the third advance of a 3-question series returned False.
C9_ThirdAdvanceEndsSeries ==
    /\ ret.op = "advance"
    /\ ~ret.ok
    /\ \E u \in DOMAIN users :
          /\ users[u].session # <<>>
          /\ Len(Session(u).question_ids) = 3
          /\ Session(u).index = 3

\* C10: record_answer with an active session adds exactly 1 to
\* stats.total.answered and 1 to stats.total.correct iff record.is_correct;
\* the attributed topic is topic_hint if given, else the first entry of the
\* question's topic_ids; exactly that topic's bucket (0/0 on first use) gets
\* the same increments and every other bucket is unchanged.
C10_RecordAnswerCounts ==
    [][\A u \in StoreUsers, a \in AnswerArgs :
          (record_answer(u, a.qid, a.rec, a.topic_hint) /\ HasSession(users, u))
          => LET old == users[u].stats
                 new == users'[u].stats
                 c == IF a.rec.is_correct THEN 1 ELSE 0
                 topics == IF a.topic_hint # NoneStr THEN {a.topic_hint}
                           ELSE IF HasQ(bank, a.qid) /\ q_by_id(bank, a.qid).topic_ids # <<>>
                           THEN {q_by_id(bank, a.qid).topic_ids[1]}
                           ELSE {}
             IN  /\ new.total.answered = old.total.answered + 1
                 /\ new.total.correct = old.total.correct + c
                 /\ DOMAIN new.by_topic = DOMAIN old.by_topic \cup topics
                 /\ \A t \in DOMAIN new.by_topic :
                       new.by_topic[t] =
                           IF t \in topics
                           THEN [answered |-> Bucket(old, t).answered + 1,
                                 correct |-> Bucket(old, t).correct + c]
                           ELSE old.by_topic[t]]_vars

\* C11: from any session state, the terminal index = len one included, finish
\* sets the session to none; a get_current_question that follows returns
\* none; and a start_session that follows with a sufficient pool succeeds
\* and starts at index 0 with no answers.
C11_FinishThenRestart ==
    [][\A u \in StoreUsers :
          /\ (finish(u) /\ HasSession(users, u)) => users'[u].session = <<>>
          /\ (Follows(u, {"finished", "asked"}) /\ ret'.op = "get_current_question"
                  /\ get_current_question(u))
             => ret'.qs = <<>>
          /\ \A a \in StartArgs :
                (/\ Follows(u, {"finished", "asked"})
                 /\ Len(Pool(bank, a.topic_id, a.diff)) >= a.count
                 /\ ret'.op = "start_session"
                 /\ start_session(u, a.mode, a.topic_id, a.diff, a.count))
                => /\ ret'.qs # <<>>
                   /\ users'[u].session # <<>>
                   /\ users'[u].session[1].index = 0
                   /\ DOMAIN users'[u].session[1].answers = {}]_vars

\* C11 witness: a session was finished in its terminal state, the question
\* asked for next was none, and the start_session after that succeeded.
C11_RestartedAfterTerminalFinish ==
    /\ afterFinish # <<>>
    /\ afterFinish[1].terminal
    /\ afterFinish[1].step = "restarted"
    /\ ret.op = "start_session"
    /\ ret.qs # <<>>
    /\ HasSession(users, afterFinish[1].user)
    /\ Session(afterFinish[1].user).index = 0

\* C12: get_current_question returns the question whose id is
\* question_ids[index] when a session exists and the index is in range, and
\* none otherwise; for a user that already exists it changes no field of the
\* row and writes nothing to the file.
C12_GetCurrentQuestionReads ==
    [][\A u \in StoreUsers :
          (ret'.op = "get_current_question" /\ get_current_question(u))
          => /\ IF HasSession(users, u) /\ Session(u).index < Len(Session(u).question_ids)
                THEN ret'.qs = <<Session(u).question_ids[Session(u).index + 1]>>
                ELSE ret'.qs = <<>>
             /\ u \in DOMAIN users => (users' = users /\ disk' = disk)]_vars

\* C12 witness: the question returned is the second one of the series.
C12_ReturnedSecondQuestion ==
    /\ ret.op = "get_current_question"
    /\ \E u \in DOMAIN users :
          /\ users[u].session # <<>>
          /\ Session(u).index = 1
          /\ Len(Session(u).question_ids) >= 2
          /\ ret.qs = <<Session(u).question_ids[2]>>
          /\ Session(u).question_ids[2] # Session(u).question_ids[1]

\* C13: for a user with no active session record_answer, advance,
\* set_await_input and clear_await_input are no-ops: none raises, advance
\* returns False, and the user's session (none), stats, prefs and
\* last_topic_id stay as they were (as ensure_user made them, when the row
\* did not exist yet).
C13_NoSessionNoOps ==
    [][\A u \in StoreUsers :
          (/\ ~HasSession(users, u)
           /\ \/ \E a \in AnswerArgs : record_answer(u, a.qid, a.rec, a.topic_hint)
              \/ advance(u)
              \/ \E qid \in AwaitQids, fmt \in Formats : set_await_input(u, qid, fmt)
              \/ clear_await_input(u))
          => /\ ret'.err = ""
             /\ ~ret'.ok
             /\ users'[u] = (IF u \in DOMAIN users THEN users[u] ELSE NewRow)
             /\ users'[u].session = <<>>]_vars

\* C13 witness: advance returned False for a user whose session was finished
\* after an answer had been counted.
C13_AdvancedWithoutSession ==
    /\ ret.op = "advance"
    /\ ~ret.ok
    /\ \E u \in DOMAIN users :
          /\ users[u].session = <<>>
          /\ users[u].stats.total.answered >= 1

\* C14: every mutating store operation writes the whole users document
\* before it returns: starting from a loaded store, whenever a store
\* operation has returned, the users mapping of the file equals the users
\* mapping in memory.
C14_ReadAfterWrite ==
    ret.err = "" => disk = users

\* C16: update_prefs never accepts an out-of-range value: after any sequence
\* of update_prefs calls, prefs has exactly the keys qcount, diff, sol with
\* qcount in {3,5,10}, diff in {e,m,h} and sol in {imm,end}.
C16_PrefsInVocabulary ==
    \A u \in DOMAIN users :
        /\ DOMAIN users[u].prefs = {"qcount", "diff", "sol"}
        /\ users[u].prefs.qcount \in {3, 5, 10}
        /\ users[u].prefs.diff \in {"e", "m", "h"}
        /\ users[u].prefs.sol \in {"imm", "end"}

\* C17: ensure_user is an idempotent get-or-create: the first call for a
\* user_id creates a row with prefs {5, m, imm}, no session, zeroed total
\* stats and no topic bucket, and persists; a later call changes no field of
\* the row and does not persist; and no call writes the rows of two users
\* (their prefs and stats are not shared).
C17_EnsureUserGetOrCreate ==
    [][\A u \in Users :
          /\ (ret' = NoValue /\ ensure_user(u)) =>
                IF u \in DOMAIN users
                THEN users' = users /\ disk' = disk
                ELSE /\ DOMAIN users' = DOMAIN users \cup {u}
                     /\ users'[u].prefs = [qcount |-> 5, diff |-> "m", sol |-> "imm"]
                     /\ users'[u].session = <<>>
                     /\ users'[u].stats = [total |-> [answered |-> 0, correct |-> 0], by_topic |-> << >>]
                     /\ \A v \in DOMAIN users : users'[v] = users[v]
                     /\ disk' = users'
          /\ \A v \in DOMAIN users \ {u} :
                u \in DOMAIN users => (users'[u] = users[u] \/ users'[v] = users[v])]_vars

\* C17 witness: two rows with different prefs and different stats, and a call
\* for an existing user that returned without writing the file while the
\* memory held an unsaved change.
C17_RowsApartAndNotSaved ==
    /\ ret = NoValue
    /\ disk # users
    /\ \E u, v \in DOMAIN users :
          /\ users[u].prefs # users[v].prefs
          /\ users[u].stats # users[v].stats

---------------------------------------------------------------------------
(* Claims about start-up and the users file *)

\* C15: if the process dies at any step of a persist, users.json holds
\* either what it held before that persist began or the complete new
\* document, never a partly written one.
C15_CrashSafePersist ==
    /\ fstate # "partial"
    /\ txn # <<>> =>
          \/ fstate = txn[1].old_state /\ disk = txn[1].old_doc
          \/ fstate = "doc" /\ disk = txn[1].new_doc

\* C15 witness: the process died while the temporary file was half written,
\* and users.json still holds the complete previous document, which has a row.
C15_DiedWhileWritingTmp ==
    /\ pc = "crashed"
    /\ tmp # <<>>
    /\ ~tmp[1].done
    /\ txn # <<>>
    /\ fstate = "doc"
    /\ disk = txn[1].old_doc
    /\ disk # txn[1].new_doc
    /\ DOMAIN disk # {}

\* C18: load_bank raises an error that lists every question id naming an
\* unknown topic whenever there is one, and then leaves no question and no
\* index entry loaded; when every topic_ids entry resolves it succeeds.
C18_LoadBankFailsFast ==
    [][\A f \in BankFiles :
          load_bank(f) =>
              LET unknown(q) == \E i \in 1..Len(q.topic_ids) : q.topic_ids[i] \notin Range(f.topics)
                  offending == Ids(SelectSeq(f.questions, unknown))
              IN  IF offending # <<>>
                  THEN /\ ret'.err = "RuntimeError"
                       /\ ret'.qs = offending
                       /\ bank'.questions = <<>>
                       /\ \A t \in Range(f.topics) \cup {"zzz", "yyy"} : q_by_topic(bank'.questions, t) = <<>>
                  ELSE /\ ret'.err = ""
                       /\ bank' = f
                       /\ pc' = "bank"]_vars

\* C19: load_users never fails: a missing file gives an empty document that
\* is persisted at once; content that cannot be used gives an empty
\* document; otherwise the users are loaded as they were persisted.
C19_LoadUsersRecovers ==
    [][/\ load_users =>
             /\ ret'.err = ""
             /\ pc' # "aborted"
             /\ fstate = "missing" => (users' = << >> /\ pc' = "open" /\ txn'[1].new_doc = << >>)
             /\ fstate \in {"garbage", "nousers", "partial"} => (users' = << >> /\ pc' = "ready")
             /\ fstate = "doc" => (users' = disk /\ pc' = "ready")
       /\ atomic_write_replace => (fstate' = "doc" /\ disk' = users /\ users' = users)]_vars

\* C19 witness: load_users found no file, and the empty document it installed
\* is now in users.json.
C19_MissingFileCreated ==
    /\ ret.op = "load_users"
    /\ pc = "ready"
    /\ txn # <<>>
    /\ txn[1].old_state = "missing"
    /\ fstate = "doc"
    /\ disk = << >>
    /\ users = << >>

---------------------------------------------------------------------------
(* Claims about the dispatcher *)

\* C20: the dispatcher gates every inbound action through the shield before
\* it reaches the store: it calls is_duplicate and try_acquire before any
\* mutating store operation and releases on every exit path.  What is
\* checked is the first thing this requires: whenever a handler has changed
\* the store, is_duplicate was called in it (a key is stamped with the
\* current time).
C20_StoreBehindShield ==
    [][users' # users => \E k \in DOMAIN last' : last'[k] = now]_vars

---------------------------------------------------------------------------
(* Claims about the session's await_input and answers, and the stats sums *)

\* C21: in every reachable session state at most one await_input is active
\* and, when set, its qid is the question at the current cursor
\* (question_ids[index]); after advance it never names the previous question.
C21_AwaitInputAtCursor ==
    \A u \in DOMAIN users :
        (users[u].session # <<>> /\ Session(u).await_input # <<>>)
            => /\ Len(Session(u).await_input) = 1
               /\ Session(u).index < Len(Session(u).question_ids)
               /\ Session(u).await_input[1].qid = Session(u).question_ids[Session(u).index + 1]

\* C22: in every reachable session state the keys of session.answers are a
\* subset of session.question_ids, whatever qid record_answer was given.
C22_AnswersWithinSeries ==
    \A u \in DOMAIN users :
        users[u].session # <<>> =>
            DOMAIN Session(u).answers \subseteq Range(Session(u).question_ids)

\* C26: record_answer is all-or-nothing: a call that fails leaves the
\* session's answers and the stats as they were before the call, so the store
\* never holds answers[qid] without the stats increment and the persist.
C26_RecordAnswerAllOrNothing ==
    [][\A u \in StoreUsers, a \in AnswerArgs :
          (ret'.op = "record_answer" /\ ret'.err # ""
              /\ record_answer(u, a.qid, a.rec, a.topic_hint))
          => /\ users'[u].session = users[u].session
             /\ users'[u].stats = users[u].stats]_vars

\* C27: for every user, after any sequence of store operations, the answered
\* counts of the topic buckets sum to at most stats.total.answered and the
\* correct counts to at most stats.total.correct.
RECURSIVE SumOver(_, _, _)
SumOver(by_topic, S, field) ==
    IF S = {} THEN 0
    ELSE LET t == CHOOSE x \in S : TRUE
         IN  by_topic[t][field] + SumOver(by_topic, S \ {t}, field)
C27_BucketsWithinTotal ==
    \A u \in DOMAIN users :
        LET st == users[u].stats
        IN  /\ SumOver(st.by_topic, DOMAIN st.by_topic, "answered") <= st.total.answered
            /\ SumOver(st.by_topic, DOMAIN st.by_topic, "correct") <= st.total.correct

\* C27 witness: two answers were counted, one in each of two buckets.
C27_TwoBucketsCounted ==
    \E u \in DOMAIN users :
        /\ users[u].stats.total.answered = 2
        /\ Cardinality(DOMAIN users[u].stats.by_topic) = 2
        /\ \A t \in DOMAIN users[u].stats.by_topic : users[u].stats.by_topic[t].answered = 1

---------------------------------------------------------------------------
(* Claims about concurrent callers *)

\* both callers made the same call, and the two calls overlapped in time
BothDone(op) == \A c \in Callers : threads[c].pc = "done" /\ threads[c].op = op
Overlapped ==
    /\ threads["c1"].t <= threads["c2"].end
    /\ threads["c2"].t <= threads["c1"].end
Apart == IF threads["c1"].t >= threads["c2"].t
         THEN threads["c1"].t - threads["c2"].t
         ELSE threads["c2"].t - threads["c1"].t
Granted == {c \in Callers : threads[c].res}

\* C23 as stated: when two callers invoke try_acquire for the same user
\* concurrently and no unexpired lock exists, exactly one returns True; when
\* two callers invoke is_duplicate concurrently with the same never-seen key,
\* exactly one returns False.
C23_ExactlyOneOfTwo ==
    /\ (BothDone("try_acquire") /\ Overlapped) => Cardinality(Granted) = 1
    /\ (BothDone("is_duplicate") /\ Overlapped) => Cardinality(Callers \ Granted) = 1

\* C23 amended: the same, for two concurrent calls whose clock readings are
\* less than in_flight_timeout (try_acquire) or dedup_ttl (is_duplicate) apart.
C23_ExactlyOneOfTwoInWindow ==
    /\ (BothDone("try_acquire") /\ Overlapped /\ Apart < in_flight_timeout)
          => Cardinality(Granted) = 1
    /\ (BothDone("is_duplicate") /\ Overlapped /\ Apart < dedup_ttl)
          => Cardinality(Callers \ Granted) = 1

\* C23 witness: two overlapping try_acquire calls; the caller that read the
\* clock first entered the lock second and was refused.
C23_EarlierReaderRefused ==
    /\ BothDone("try_acquire")
    /\ Overlapped
    /\ threads["c1"].t < threads["c2"].t
    /\ threads["c2"].t - threads["c1"].t < in_flight_timeout
    /\ threads["c2"].res
    /\ ~threads["c1"].res

\* a call executed alone, as record_answer and advance execute it
Alone(row, call) ==
    IF call.op = "advance" THEN [row EXCEPT !.session[1] = Advanced(@)]
    ELSE [row EXCEPT !.session[1].answers = Put(@, call.qid, call.rec),
                     !.stats = StatsAfter(@, call.rec, TopicOf(call))]
\* the row before either handler entered the store: the session as started
Before ==
    LET row == users[RaceUser]
        s   == row.session[1]
    IN  [row EXCEPT !.stats = NewRow.stats,
                    !.session = <<FreshSession(<<>>, s.mode, s.topic_id, s.question_ids)>>]
BothRan == \A w \in Workers : threads[w].pc = "done" /\ threads[w].ran

\* C24: when a second handler of the same user is admitted after
\* in_flight_timeout while the first is still running, the user's stats and
\* session after both finished equal the result of their record_answer and
\* advance calls executed in some sequential order; no increment is lost.
C24_RaceIsSequential ==
    BothRan =>
        LET c1 == threads["h1"].call
            c2 == threads["h2"].call
            row == users[RaceUser]
        IN  \/ /\ row.stats = Alone(Alone(Before, c1), c2).stats
               /\ row.session = Alone(Alone(Before, c1), c2).session
            \/ /\ row.stats = Alone(Alone(Before, c2), c1).stats
               /\ row.session = Alone(Alone(Before, c2), c1).session

\* C25: when handlers of two different users mutate the store concurrently,
\* both persists complete without error, the canonical users file is at every
\* moment a complete document, and it ends as a document that contains both
\* users' changes.
C25_ConcurrentPersists ==
    /\ fstate = "doc"
    /\ \A w \in Writers : threads[w].err = ""
    /\ (\A w \in Writers : threads[w].pc \in {"done", "failed"})
          => disk = users /\ {WriterUser(w) : w \in Writers} \subseteq DOMAIN disk

=============================================================================
